---- MODULE Spec2Model ----
(***************************************************************************)
(* Model of the two Webex scripts of this repository:                      *)
(*   src/webex_reports.py   token -> templates -> selection -> report      *)
(*                          creation -> poll loop -> download / unpack     *)
(*   src/create_meeting.py  token -> meeting creation                      *)
(* One run of one script is one behaviour.  The remote API, the keyboard   *)
(* and the file system are the environment: every response, input line,    *)
(* interruption and write failure is a nondeterministic choice.            *)
(***************************************************************************)
EXTENDS Integers, Sequences, FiniteSets, TLC

VARIABLES
  script,                \* which script runs: "reports" or "meeting"
  pc,                    \* position of the run in main()
  exitCode,              \* process exit status, Running while the run lasts
  outcome,               \* the code path on which the run ended
  calls,                 \* HTTP requests issued so far, in order
  token_status,          \* HTTP status of the token response, NoResponse if none
  access_token,          \* main(): access_token
  templates,             \* main(): templates
  filtered_templates,    \* display_templates_and_select(): filtered_templates
  selection,             \* display_templates_and_select(): selection
  selected_template_id,  \* main(): selected_template_id
  days_back,             \* calculate_date_range(): days_back
  today,                 \* day number of datetime.now() in calculate_date_range()
  start_date,            \* main(): start_date, as <<year, month, day>>
  end_date,              \* main(): end_date, as <<year, month, day>>
  report_id,             \* main(): report_id
  max_attempts,          \* poll_report_until_ready(): max_attempts
  attempt,               \* poll_report_until_ready(): attempt
  sleeps,                \* number of time.sleep(poll_interval) calls made
  report,                \* poll_report_until_ready(): report
  content,               \* download_report(): response.content
  file                   \* the output file: absent, or its bytes

vars == <<script, pc, exitCode, outcome, calls, token_status, access_token,
          templates, filtered_templates, selection, selected_template_id,
          days_back, today, start_date, end_date, report_id, max_attempts,
          attempt, sleeps, report, content, file>>

----------------------------------------------------------------------------
(* Bounds of the model *)

MaxTemplates == 2      \* templates in one listing
MaxInputLen == 2       \* characters in one line typed at the prompt
MaxAttempts == 3       \* largest max_attempts explored (the default is 60)
MaxContentLen == 4     \* bytes of a downloaded body
MaxEntries == 2        \* entries of a downloaded archive
MaxDaysBack == 31      \* largest days_back explored (DAYS_BACK is 30)
MaxDaySpan == 400      \* invocation dates explored, in days

----------------------------------------------------------------------------
(* Values *)

Running == -1          \* exitCode of a run that has not ended
NoResponse == 0        \* the request raised before any HTTP status arrived
NoSelection == 0       \* selected_template_id before the selector returned

None == "<None>"       \* Python None for a string-valued field
NoFile == <<-1>>       \* no output file exists (a byte is never negative)

SERVICES == <<"Webex Meetings">>

HttpCodes == {NoResponse, 200, 400, 500}

Range(s) == {s[i] : i \in 1..Len(s)}

SeqsUpTo(S, n) == UNION {[1..k -> S] : k \in 0..n}

----------------------------------------------------------------------------
(* requests: raise_for_status() and the RequestException handlers *)

RaiseForStatusLenient(code) == code >= 500

RaiseForStatus(code) == code >= 400

\* the try blocks end in "except requests.exceptions.RequestException":
\* no response at all or an error status (HttpFails), or a body that
\* response.json() cannot decode
HttpFails(code) == code = NoResponse \/ RaiseForStatus(code)

RequestFails(resp) == HttpFails(resp.code) \/ ~resp.json

----------------------------------------------------------------------------
(* __main__: the handlers around main() *)

TopLevelExitAlwaysZero(exc) == 0

TopLevelExit(exc) == IF exc = "KeyboardInterrupt" THEN 0 ELSE 1

----------------------------------------------------------------------------
(* get_access_token / create_report: "if not x" on a fetched field *)

FieldMissingOnlyNone(v) == v = None

\* "if not access_token", "if not report_id": None and "" are both falsy
FieldMissing(v) == v = None \/ v = ""

----------------------------------------------------------------------------
(* display_templates_and_select: filtering and input parsing *)

TemplateIds == {1, 2}
TemplateServices == {"Webex Meetings", "Webex Calling"}
Templates == [Id : TemplateIds, service : TemplateServices]

\* t.get("service") in SERVICES
InServices(t) == t.service \in Range(SERVICES)

FilterTemplatesKeepAll(ts) == ts

\* filtered_templates = [t for t in templates if t.get("service") in SERVICES]
RECURSIVE FilterTemplates(_)
FilterTemplates(ts) ==
  IF ts = <<>> THEN <<>>
  ELSE IF InServices(Head(ts)) THEN <<Head(ts)>> \o FilterTemplates(Tail(ts))
       ELSE FilterTemplates(Tail(ts))

\* main(): "if not templates"
NoTemplates(ts) == ts = <<>>

InputChars == {"1", "2", " ", "x", "-"}
Digits == {"1", "2"}
DigitValue(c) == IF c = "1" THEN 1 ELSE 2

RECURSIVE LStrip(_)
LStrip(s) == IF s # <<>> /\ Head(s) = " " THEN LStrip(Tail(s)) ELSE s

RECURSIVE RStrip(_)
RStrip(s) ==
  IF s # <<>> /\ s[Len(s)] = " " THEN RStrip(SubSeq(s, 1, Len(s) - 1)) ELSE s

\* input(...).strip()
Strip(s) == RStrip(LStrip(s))

RECURSIVE DigitsValue(_)
DigitsValue(s) ==
  IF s = <<>> THEN 0
  ELSE 10 * DigitsValue(SubSeq(s, 1, Len(s) - 1)) + DigitValue(s[Len(s)])

AllDigits(s) == s # <<>> /\ \A i \in 1..Len(s) : s[i] \in Digits

\* int(selection): an optional sign and decimal digits; anything else raises
\* ValueError (ok = FALSE)
IntOf(s) ==
  IF AllDigits(s) THEN [ok |-> TRUE, val |-> DigitsValue(s)]
  ELSE IF s # <<>> /\ Head(s) = "-" /\ AllDigits(Tail(s))
       THEN [ok |-> TRUE, val |-> 0 - DigitsValue(Tail(s))]
       ELSE [ok |-> FALSE, val |-> 0]

IdsOf(ts) == {ts[i].Id : i \in 1..Len(ts)}

\* any(t.get("Id") == selected_id for t in filtered_templates)
ValidSelection(sel, ts) == IntOf(sel).ok /\ IntOf(sel).val \in IdsOf(ts)

----------------------------------------------------------------------------
(* calculate_date_range: datetime arithmetic and strftime("%Y-%m-%d")       *)
(* A date is a day number, day 0 being 1 January of EpochYear; a formatted  *)
(* date is its <<year, month, day>>.                                        *)

DAYS_BACK == 30
EpochYear == 2024
NoDay == -1
NoDate == <<0, 0, 0>>

IsLeap(y) == y % 4 = 0 /\ (y % 100 # 0 \/ y % 400 = 0)

DaysInMonth(y, m) ==
  IF m = 2 THEN (IF IsLeap(y) THEN 29 ELSE 28)
  ELSE IF m \in {4, 6, 9, 11} THEN 30 ELSE 31

\* the calendar date of the day n days after the first of month m of year y
RECURSIVE YmdFrom(_, _, _)
YmdFrom(y, m, n) ==
  IF n < DaysInMonth(y, m) THEN <<y, m, n + 1>>
  ELSE IF m = 12 THEN YmdFrom(y + 1, 1, n - DaysInMonth(y, m))
       ELSE YmdFrom(y, m + 1, n - DaysInMonth(y, m))

\* datetime.strftime("%Y-%m-%d") of day number n
Ymd(n) == YmdFrom(EpochYear, 1, n)

DateRangeFromToday(now, n) == [start |-> Ymd(now - n), end |-> Ymd(now - 1)]

\* end_date = datetime.now() - timedelta(days=1)
\* start_date = end_date - timedelta(days=days_back), both formatted
DateRange(now, n) == [start |-> Ymd((now - 1) - n), end |-> Ymd(now - 1)]

\* invocation dates: late enough for the whole range to lie after the epoch
Days == (MaxDaysBack + 1)..(MaxDaysBack + 1 + MaxDaySpan)

\* the invocation dates of a whole run (Spec): 1 March 2024 and 1 January 2025
RunDays == {60, 366}

----------------------------------------------------------------------------
(* poll_report_until_ready: loop guard and status classification *)

RawStatuses == {"done", "DONE", "failed", "Failed", "processing", None}
Reports == [status : RawStatuses, downloadURL : BOOLEAN]
NoReport == [status |-> None, downloadURL |-> FALSE]

LowerIdentity(s) == s

\* str.lower() over the statuses of the model
Lower(s) ==
  CASE s = "DONE" -> "done"
    [] s = "Failed" -> "failed"
    [] OTHER -> s

StatusOfDefaultDone(r) == IF r.status = None THEN "done" ELSE Lower(r.status)

StatusOfCaseSensitive(r) == IF r.status = None THEN "" ELSE r.status

\* status = report.get("status", "").lower()
StatusOf(r) == IF r.status = None THEN "" ELSE Lower(r.status)

PollContinuesInclusive(a, m) == a <= m

\* while attempt < max_attempts
PollContinues(a, m) == a < m

----------------------------------------------------------------------------
(* download_report: signature test and archive access *)

Byte == {80, 75, 3, 4}
ZipMagic == <<80, 75, 3, 4>>

Prefix(s, n) == SubSeq(s, 1, IF Len(s) < n THEN Len(s) ELSE n)

IsZipTwoBytes(bytes) == Prefix(bytes, 2) = Prefix(ZipMagic, 2)

\* content[:4] == b'PK\x03\x04'
IsZip(bytes) == Prefix(bytes, 4) = ZipMagic

CsvSuffix == <<".", "c", "s", "v">>

EntryNames == { <<"r", ".", "c", "s", "v">>, <<"s", ".", "c", "s", "v">>,
                <<"r", ".", "t", "x", "t">>, <<"r", ".", "C", "S", "V">>,
                <<"c", "s", "v">> }
EntryData == { <<80>>, <<75, 3>> }
Entries == [name : EntryNames, data : EntryData]

EndsWithAnyCase(s, suf) ==
  /\ Len(s) >= Len(suf)
  /\ LET t == SubSeq(s, Len(s) - Len(suf) + 1, Len(s))
     IN  t = suf \/ t = <<".", "C", "S", "V">>

\* str.endswith
EndsWith(s, suf) ==
  /\ Len(s) >= Len(suf)
  /\ SubSeq(s, Len(s) - Len(suf) + 1, Len(s)) = suf

\* zip_file.namelist()
NameList(entries) == [i \in 1..Len(entries) |-> entries[i].name]

\* next((f for f in file_list if f.endswith('.csv')), None): the index of the
\* first such name, 0 for None
FirstCsv(names) ==
  IF \E i \in 1..Len(names) : EndsWith(names[i], CsvSuffix)
  THEN CHOOSE i \in 1..Len(names) :
         /\ EndsWith(names[i], CsvSuffix)
         /\ \A j \in 1..(i - 1) : ~EndsWith(names[j], CsvSuffix)
  ELSE 0

\* zip_file.read(name): ZipFile resolves a name through NameToInfo, in which
\* a later entry of the same name replaces an earlier one
ZipRead(entries, name) ==
  LET last == CHOOSE i \in 1..Len(entries) :
                /\ entries[i].name = name
                /\ \A j \in (i + 1)..Len(entries) : entries[j].name # name
  IN  entries[last].data

\* the first four bytes are 0x50 0x4B 0x03 0x04
StartsWithMagic(b) == Len(b) >= 4 /\ \A i \in 1..4 : b[i] = ZipMagic[i]

\* a downloaded body: its bytes and, when they carry the signature, what
\* zipfile makes of them (bad = BadZipFile is raised)
Contents ==
  { [bytes |-> b, bad |-> TRUE, entries |-> <<>>] :
      b \in SeqsUpTo(Byte, MaxContentLen) }
  \cup
  { [bytes |-> b, bad |-> FALSE, entries |-> e] :
      b \in {x \in SeqsUpTo(Byte, MaxContentLen) : StartsWithMagic(x)},
      e \in SeqsUpTo(Entries, MaxEntries) }

NoContent == [bytes |-> <<>>, bad |-> TRUE, entries |-> <<>>]

\* the bodies answered inside a whole run (Spec): an empty body, a body that
\* stops inside the signature, and archives of at most one entry; the
\* unpacker alone is explored over all of Contents (SpecDownload)
RunContents ==
  { c \in Contents :
      /\ c.bytes \in {<<>>, Prefix(ZipMagic, 2), ZipMagic}
      /\ Len(c.entries) <= 1 }

----------------------------------------------------------------------------
(* What the environment can answer *)

TokenResponses ==
  [code : HttpCodes, json : BOOLEAN, access_token : {None, "", "T"}]
TemplateResponses ==
  [code : HttpCodes, json : BOOLEAN, items : SeqsUpTo(Templates, MaxTemplates)]
CreateResponses == [code : HttpCodes, json : BOOLEAN, Id : {None, "", "R"}]
DetailResponses == [code : HttpCodes, json : BOOLEAN, items : SeqsUpTo(Reports, 1)]
DownloadResponses == [code : HttpCodes, content : Contents]
RunDownloadResponses == [code : HttpCodes, content : RunContents]
MeetingResponses == [code : HttpCodes, json : BOOLEAN]
InputLines == SeqsUpTo(InputChars, MaxInputLen)

----------------------------------------------------------------------------
(* The run *)

Init ==
  /\ script \in {"reports", "meeting"}
  /\ pc = "auth"
  /\ exitCode = Running
  /\ outcome = "running"
  /\ calls = <<>>
  /\ token_status = NoResponse
  /\ access_token = None
  /\ templates = <<>>
  /\ filtered_templates = <<>>
  /\ selection = <<>>
  /\ selected_template_id = NoSelection
  /\ days_back = DAYS_BACK
  /\ today = NoDay
  /\ start_date = NoDate
  /\ end_date = NoDate
  /\ report_id = None
  /\ max_attempts \in (IF script = "reports" THEN 0..MaxAttempts ELSE {0})
  /\ attempt = 0
  /\ sleeps = 0
  /\ report = NoReport
  /\ content = NoContent
  /\ file = NoFile

\* sys.exit(code), or main() returning (code 0)
Exit(code, why) ==
  /\ pc' = "exit"
  /\ exitCode' = code
  /\ outcome' = why

Request(name) == calls' = Append(calls, name)

\* webex_reports.py: get_access_token, then main() goes on to the listing
GetAccessToken(resp) ==
  /\ script = "reports"
  /\ pc = "auth"
  /\ Request("token")
  /\ token_status' = resp.code
  /\ IF RequestFails(resp)
       THEN Exit(1, "auth_http") /\ UNCHANGED access_token
     ELSE IF FieldMissing(resp.access_token)
       THEN Exit(1, "no_token") /\ UNCHANGED access_token
     ELSE /\ access_token' = resp.access_token
          /\ pc' = "list"
          /\ UNCHANGED <<exitCode, outcome>>
  /\ UNCHANGED <<script, days_back, today, start_date, end_date, report_id, templates, filtered_templates, selection,
                 selected_template_id, max_attempts, attempt, sleeps, report,
                 content, file>>

\* create_meeting.py: get_access_token, then main() goes on to the meeting
MeetingGetAccessToken(resp) ==
  /\ script = "meeting"
  /\ pc = "auth"
  /\ Request("token")
  /\ token_status' = resp.code
  /\ IF RequestFails(resp)
       THEN Exit(1, "auth_http") /\ UNCHANGED access_token
     ELSE IF FieldMissing(resp.access_token)
       THEN Exit(1, "no_token") /\ UNCHANGED access_token
     ELSE /\ access_token' = resp.access_token
          /\ pc' = "create_meeting"
          /\ UNCHANGED <<exitCode, outcome>>
  /\ UNCHANGED <<script, days_back, today, start_date, end_date, report_id, templates, filtered_templates, selection,
                 selected_template_id, max_attempts, attempt, sleeps, report,
                 content, file>>

\* create_meeting.py: create_meeting, display_meeting_details, end of main()
CreateMeeting(resp) ==
  /\ pc = "create_meeting"
  /\ Request("create_meeting")
  /\ IF RequestFails(resp)
       THEN Exit(1, "meeting_http")
       ELSE Exit(0, "success")
  /\ UNCHANGED <<script, days_back, today, start_date, end_date, token_status, report_id, access_token, templates, filtered_templates,
                 selection, selected_template_id, max_attempts, attempt,
                 sleeps, report, content, file>>

\* list_report_templates, main()'s "if not templates", and the entry of
\* display_templates_and_select up to its first prompt
ListReportTemplates(resp) ==
  /\ pc = "list"
  /\ Request("templates")
  /\ IF RequestFails(resp)
       THEN Exit(1, "templates_http")
            /\ UNCHANGED <<templates, filtered_templates>>
     ELSE /\ templates' = resp.items
          /\ IF NoTemplates(resp.items)
               THEN Exit(0, "no_templates") /\ UNCHANGED filtered_templates
               ELSE /\ filtered_templates' = FilterTemplates(resp.items)
                    /\ pc' = "select"
                    /\ UNCHANGED <<exitCode, outcome>>
  /\ UNCHANGED <<script, days_back, today, start_date, end_date, token_status, report_id, access_token, selection, selected_template_id,
                 max_attempts, attempt, sleeps, report, content, file>>

\* display_templates_and_select: one pass of "while True" on a line typed by
\* the user
SelectTemplate(line) ==
  /\ pc = "select"
  /\ IF ValidSelection(Strip(line), filtered_templates)
       THEN /\ selected_template_id' = IntOf(Strip(line)).val
            /\ pc' = "dates"
       ELSE UNCHANGED <<selected_template_id, pc>>
  /\ selection' = Strip(line)
  /\ UNCHANGED <<script, days_back, today, start_date, end_date, token_status, report_id, exitCode, outcome, calls, access_token, templates,
                 filtered_templates, max_attempts, attempt, sleeps, report,
                 content, file>>

\* display_templates_and_select: "except KeyboardInterrupt: sys.exit(0)"
SelectInterrupt ==
  /\ pc = "select"
  /\ Exit(0, "cancelled")
  /\ UNCHANGED <<script, days_back, today, start_date, end_date, token_status, report_id, calls, access_token, templates, filtered_templates,
                 selection, selected_template_id, max_attempts, attempt,
                 sleeps, report, content, file>>

\* input() raises EOFError: no handler in the selector, "except Exception"
\* of __main__ ends the run
SelectEndOfInput ==
  /\ pc = "select"
  /\ Exit(TopLevelExit("EOFError"), "input_eof")
  /\ UNCHANGED <<script, days_back, today, start_date, end_date, token_status, report_id, calls, access_token, templates, filtered_templates,
                 selection, selected_template_id, max_attempts, attempt,
                 sleeps, report, content, file>>

\* calculate_date_range(days_back), called by main() at the date now
CalculateDateRange(now) ==
  /\ pc = "dates"
  /\ now - 1 - days_back >= 0
  /\ today' = now
  /\ start_date' = DateRange(now, days_back).start
  /\ end_date' = DateRange(now, days_back).end
  /\ pc' = "create"
  /\ UNCHANGED <<script, exitCode, outcome, calls, token_status, access_token,
                 templates, filtered_templates, selection,
                 selected_template_id, days_back, report_id, max_attempts,
                 attempt, sleeps, report, content, file>>

\* create_report; main() then enters poll_report_until_ready (attempt = 0)
CreateReport(resp) ==
  /\ pc = "create"
  /\ Request("create_report")
  /\ IF RequestFails(resp)
       THEN Exit(1, "create_http") /\ UNCHANGED <<report_id, attempt>>
     ELSE IF FieldMissing(resp.Id)
       THEN Exit(1, "no_report_id") /\ UNCHANGED <<report_id, attempt>>
     ELSE /\ report_id' = resp.Id
          /\ attempt' = 0
          /\ pc' = "poll"
          /\ UNCHANGED <<exitCode, outcome>>
  /\ UNCHANGED <<script, days_back, today, start_date, end_date, token_status, access_token, templates, filtered_templates,
                 selection, selected_template_id, max_attempts, sleeps,
                 report, content, file>>

\* poll_report_until_ready: one pass of the loop body, from the loop test to
\* the return, the exit or the call of time.sleep; on "done", main() displays
\* the details and reads downloadURL
PollReport(resp) ==
  /\ pc = "poll"
  /\ PollContinues(attempt, max_attempts)
  /\ attempt' = attempt + 1
  /\ Request("details")
  /\ IF RequestFails(resp)
       THEN Exit(1, "details_http") /\ UNCHANGED report
     ELSE IF resp.items = <<>>
       THEN Exit(1, "no_details") /\ UNCHANGED report
     ELSE /\ report' = resp.items[1]
          /\ IF StatusOf(resp.items[1]) = "done"
               THEN IF resp.items[1].downloadURL
                      THEN pc' = "download" /\ UNCHANGED <<exitCode, outcome>>
                      ELSE Exit(0, "no_download_url")
             ELSE IF StatusOf(resp.items[1]) = "failed"
               THEN Exit(1, "report_failed")
             ELSE pc' = "sleep" /\ UNCHANGED <<exitCode, outcome>>
  /\ UNCHANGED <<script, days_back, today, start_date, end_date, token_status, report_id, access_token, templates, filtered_templates,
                 selection, selected_template_id, max_attempts, sleeps,
                 content, file>>

\* poll_report_until_ready: time.sleep(poll_interval) returns
PollSleep ==
  /\ pc = "sleep"
  /\ sleeps' = sleeps + 1
  /\ pc' = "poll"
  /\ UNCHANGED <<script, days_back, today, start_date, end_date, token_status, report_id, exitCode, outcome, calls, access_token, templates,
                 filtered_templates, selection, selected_template_id,
                 max_attempts, attempt, report, content, file>>

\* poll_report_until_ready: the loop test fails, "Timeout", sys.exit(1)
PollTimeout ==
  /\ pc = "poll"
  /\ ~PollContinues(attempt, max_attempts)
  /\ Exit(1, "timeout")
  /\ UNCHANGED <<script, days_back, today, start_date, end_date, token_status, report_id, calls, access_token, templates, filtered_templates,
                 selection, selected_template_id, max_attempts, attempt,
                 sleeps, report, content, file>>

\* download_report and the end of main(); oserr: open() of the output file
\* raises OSError, which only "except Exception" of __main__ handles
DownloadReport(resp, oserr) ==
  /\ pc = "download"
  /\ Request("download")
  /\ IF HttpFails(resp.code)
       THEN Exit(1, "download_http") /\ UNCHANGED <<content, file>>
     ELSE /\ content' = resp.content
          /\ IF IsZip(resp.content.bytes)
               THEN IF resp.content.bad
                      THEN Exit(1, "bad_zip") /\ UNCHANGED file
                    ELSE IF FirstCsv(NameList(resp.content.entries)) = 0
                      THEN Exit(1, "no_csv") /\ UNCHANGED file
                    ELSE IF oserr
                      THEN Exit(TopLevelExit("OSError"), "write_error")
                           /\ UNCHANGED file
                    ELSE /\ file' = ZipRead(resp.content.entries,
                                      NameList(resp.content.entries)
                                        [FirstCsv(NameList(resp.content.entries))])
                         /\ Exit(0, "success")
               ELSE IF oserr
                      THEN Exit(TopLevelExit("OSError"), "write_error")
                           /\ UNCHANGED file
                      ELSE file' = resp.content.bytes /\ Exit(0, "success")
  /\ UNCHANGED <<script, days_back, today, start_date, end_date, token_status, report_id, access_token, templates, filtered_templates,
                 selection, selected_template_id, max_attempts, attempt,
                 sleeps, report>>

\* __main__: "except KeyboardInterrupt" around main(), at any point of the
\* run outside the selector's own handler
Interrupt ==
  /\ pc \notin {"exit", "select"}
  /\ Exit(TopLevelExit("KeyboardInterrupt"), "cancelled")
  /\ UNCHANGED <<script, days_back, today, start_date, end_date, token_status, report_id, calls, access_token, templates, filtered_templates,
                 selection, selected_template_id, max_attempts, attempt,
                 sleeps, report, content, file>>

Next ==
  \/ \E resp \in TokenResponses : GetAccessToken(resp)
  \/ \E resp \in TokenResponses : MeetingGetAccessToken(resp)
  \/ \E resp \in MeetingResponses : CreateMeeting(resp)
  \/ \E resp \in TemplateResponses : ListReportTemplates(resp)
  \/ \E line \in InputLines : SelectTemplate(line)
  \/ SelectInterrupt
  \/ SelectEndOfInput
  \/ \E now \in RunDays : CalculateDateRange(now)
  \/ \E resp \in CreateResponses : CreateReport(resp)
  \/ \E resp \in DetailResponses : PollReport(resp)
  \/ PollSleep
  \/ PollTimeout
  \/ \E resp \in RunDownloadResponses, oserr \in BOOLEAN :
       DownloadReport(resp, oserr)
  \/ Interrupt

Spec == Init /\ [][Next]_vars

----------------------------------------------------------------------------
(* download_report alone: main() has just called it, after a run in which   *)
(* the first template was selected and the first fetch returned "done"      *)

InitDownload ==
  /\ script = "reports"
  /\ pc = "download"
  /\ exitCode = Running
  /\ outcome = "running"
  /\ calls = <<"token", "templates", "create_report", "details">>
  /\ token_status = 200
  /\ access_token = "T"
  /\ templates = <<[Id |-> 1, service |-> "Webex Meetings"]>>
  /\ filtered_templates = <<[Id |-> 1, service |-> "Webex Meetings"]>>
  /\ selection = <<"1">>
  /\ selected_template_id = 1
  /\ days_back = DAYS_BACK
  /\ today = 60
  /\ start_date = DateRange(60, DAYS_BACK).start
  /\ end_date = DateRange(60, DAYS_BACK).end
  /\ report_id = "R"
  /\ max_attempts \in 1..MaxAttempts
  /\ attempt = 1
  /\ sleeps = 0
  /\ report = [status |-> "done", downloadURL |-> TRUE]
  /\ content = NoContent
  /\ file = NoFile

NextDownload ==
  \/ \E resp \in DownloadResponses, oserr \in BOOLEAN :
       DownloadReport(resp, oserr)
  \/ Interrupt

SpecDownload == InitDownload /\ [][NextDownload]_vars

----------------------------------------------------------------------------
(* calculate_date_range alone: main() is about to call it, after a run in   *)
(* which the first template was selected                                    *)

InitDates ==
  /\ script = "reports"
  /\ pc = "dates"
  /\ exitCode = Running
  /\ outcome = "running"
  /\ calls = <<"token", "templates">>
  /\ token_status = 200
  /\ access_token = "T"
  /\ templates = <<[Id |-> 1, service |-> "Webex Meetings"]>>
  /\ filtered_templates = <<[Id |-> 1, service |-> "Webex Meetings"]>>
  /\ selection = <<"1">>
  /\ selected_template_id = 1
  /\ days_back \in 0..MaxDaysBack
  /\ today = NoDay
  /\ start_date = NoDate
  /\ end_date = NoDate
  /\ report_id = None
  /\ max_attempts = MaxAttempts
  /\ attempt = 0
  /\ sleeps = 0
  /\ report = NoReport
  /\ content = NoContent
  /\ file = NoFile

NextDates ==
  \/ \E now \in Days : CalculateDateRange(now)
  \/ Interrupt

SpecDates == InitDates /\ [][NextDates]_vars

----------------------------------------------------------------------------
(* Properties *)

Count(name) == Cardinality({i \in 1..Len(calls) : calls[i] = name})

LastCall == IF calls = <<>> THEN "none" ELSE calls[Len(calls)]

TerminalStatuses == {"done", "DONE", "failed", "Failed"}
DoneStatuses == {"done", "DONE"}

\* C1: a poll loop that never fetches a terminal status makes exactly
\* max_attempts detail fetches, never more, and then ends the process on the
\* timeout path with exit status 1: no run ever holds more than max_attempts
\* fetches, a run that timed out holds exactly max_attempts fetches and as
\* many sleeps, and once max_attempts fetches are behind the loop test the
\* only way on is the timeout exit (or the user's interruption).
C1_PollBound ==
  /\ [](Count("details") <= max_attempts)
  /\ [](outcome = "timeout" =>
          /\ exitCode = 1
          /\ Count("details") = max_attempts
          /\ sleeps = max_attempts
          /\ report.status \notin TerminalStatuses)
  /\ [][pc = "poll" /\ Count("details") >= max_attempts
          => outcome' \in {"timeout", "cancelled"} /\ calls' = calls]_vars

C1_Witness ==
  /\ outcome = "timeout"
  /\ max_attempts >= 2
  /\ Count("details") = max_attempts
  /\ report.status = "processing"

\* C2: a template list that is not empty but holds no template of an allowed
\* service ends the run with status 0 as "no templates available"; the
\* selection prompt is never entered.
C2_EmptyFilterExits ==
  (LastCall = "templates" /\ templates # <<>>
     /\ \A i \in 1..Len(templates) : templates[i].service \notin Range(SERVICES))
  => (pc = "exit" /\ exitCode = 0 /\ outcome # "cancelled")

SuccessOutcomes == {"success", "no_download_url"}
CancelOutcomes == {"cancelled"}
FailureOutcomes ==
  {"auth_http", "no_token", "templates_http", "no_templates", "input_eof",
   "create_http", "no_report_id", "details_http", "no_details",
   "report_failed", "timeout", "download_http", "bad_zip", "no_csv",
   "write_error", "meeting_http"}

\* C3 as stated: a run ends with status 0 only on success or cancellation and
\* with status 1 on every authentication, API, validation or I/O failure, an
\* empty template list being one of the validation failures.
C3_Original ==
  pc = "exit" =>
    /\ outcome \in SuccessOutcomes \cup CancelOutcomes => exitCode = 0
    /\ outcome \in FailureOutcomes => exitCode = 1

\* C3 (amended): a run ends with status 0 exactly when it ended in success
\* (a finished report without download URL included), in the user's
\* cancellation, or on an empty template list; every other end is a failure
\* and has status 1.  A run that has not ended has no status.
C3_ExitStatus ==
  /\ pc = "exit" <=> exitCode # Running
  /\ pc = "exit" =>
       /\ outcome \in SuccessOutcomes \cup CancelOutcomes \cup FailureOutcomes
       /\ exitCode \in {0, 1}
       /\ exitCode = 0 <=>
            outcome \in SuccessOutcomes \cup CancelOutcomes \cup {"no_templates"}

C3_Witness == pc = "exit" /\ outcome = "write_error" /\ exitCode = 1

IsEmptyField(v) == v = None \/ v = ""

HasCsvName(entries) ==
  \E i \in 1..Len(entries) :
    /\ Len(entries[i].name) >= 4
    /\ SubSeq(entries[i].name, Len(entries[i].name) - 3, Len(entries[i].name))
         = <<".", "c", "s", "v">>

\* the download request was answered and its body was examined
Unpacked ==
  /\ pc = "exit"
  /\ LastCall = "download"
  /\ outcome \in {"success", "bad_zip", "no_csv", "write_error"}

\* C4 as stated: a successful response without access token, report
\* identifier, templates or CSV entry ends the run with status 1.
C4_Original ==
  outcome \in {"no_token", "no_report_id", "no_templates", "no_csv"} => exitCode = 1

\* C4 (amended): a successful response without access token, without report
\* identifier or without CSV entry in the archive ends the run with status 1
\* and no further request; a successful response without templates ends the
\* run with status 0 and no further request.
C4_MissingField ==
  /\ [](LastCall # "none" /\ IsEmptyField(access_token) =>
          pc = "exit" /\ calls = <<"token">> /\ exitCode = 1)
  /\ [](Count("create_report") > 0 /\ IsEmptyField(report_id) =>
          pc = "exit" /\ LastCall = "create_report" /\ exitCode = 1)
  /\ [](Unpacked /\ StartsWithMagic(content.bytes) /\ ~content.bad
          /\ ~HasCsvName(content.entries) =>
          outcome = "no_csv" /\ exitCode = 1 /\ LastCall = "download")
  /\ [](LastCall = "templates" /\ templates = <<>> /\ outcome # "templates_http" =>
          pc = "exit" /\ outcome = "no_templates" /\ exitCode = 0)
  /\ [][pc = "exit" => calls' = calls]_vars

C4_Witness == outcome = "no_report_id" /\ exitCode = 1 /\ LastCall = "create_report"

C6_TerminalFirstFetch ==
  (attempt = 1 /\ report.status \in TerminalStatuses)
  => /\ Count("details") = 1
     /\ sleeps = 0
     /\ pc \in {"download", "exit"}
     /\ report.status \in DoneStatuses =>
          outcome \in {"running", "no_download_url", "cancelled", "success",
                       "download_http", "bad_zip", "no_csv", "write_error"}
     /\ report.status \notin DoneStatuses =>
          (pc = "exit" /\ outcome = "report_failed" /\ exitCode = 1)

C6_Witness ==
  attempt = 1 /\ report.status = "DONE" /\ pc = "download" /\ sleeps = 0

AllowedIds ==
  {templates[i].Id : i \in {j \in 1..Len(templates) :
                              templates[j].service \in Range(SERVICES)}}

\* the typed line, stripped, is a number that names a template of an allowed
\* service
Acceptable(sel) == IntOf(sel).ok /\ IntOf(sel).val \in AllowedIds

\* C7: the selector offers only templates of an allowed service, main() holds
\* a selected identifier only if it is the identifier of such a template, and
\* a typed line that is not a number or names no offered template changes
\* nothing but the line read: the prompt is repeated.
C7_Selector ==
  /\ [](\A i \in 1..Len(filtered_templates) :
          /\ filtered_templates[i].service \in Range(SERVICES)
          /\ filtered_templates[i] \in Range(templates))
  /\ [](selected_template_id # NoSelection => selected_template_id \in AllowedIds)
  /\ [][pc = "select" /\ pc' # "exit" =>
          IF Acceptable(selection')
            THEN pc' = "dates" /\ selected_template_id' = IntOf(selection').val
            ELSE /\ pc' = "select"
                 /\ UNCHANGED <<script, days_back, today, start_date, end_date, exitCode, outcome, calls, token_status,
                                access_token, templates, filtered_templates,
                                selected_template_id, report_id, max_attempts,
                                attempt, sleeps, report, content, file>>]_vars

\* a rejected line that names the identifier of a template outside the
\* allow-list, in a listing that also holds an allowed template
C7_Witness ==
  /\ pc = "select"
  /\ filtered_templates # <<>>
  /\ IntOf(selection).ok
  /\ IntOf(selection).val \in IdsOf(templates) \ AllowedIds

\* C8: a body with the zip signature whose archive holds no entry named
\* "....csv" ends the process with status 1 and leaves no output file.
C8_NoCsvIsFatal ==
  (Unpacked /\ StartsWithMagic(content.bytes) /\ ~content.bad
     /\ ~HasCsvName(content.entries))
  => (exitCode = 1 /\ outcome = "no_csv" /\ file = NoFile)

C8_Witness ==
  /\ outcome = "no_csv"
  /\ Len(content.entries) = 2
  /\ content.entries[1].name = <<"r", ".", "C", "S", "V">>
  /\ file = NoFile

FirstCsvEntry(entries) ==
  entries[CHOOSE i \in 1..Len(entries) :
            /\ HasCsvName(<<entries[i]>>)
            /\ \A j \in 1..(i - 1) : ~HasCsvName(<<entries[j]>>)]

\* C9: a body with the zip signature whose archive holds a ".csv" entry makes
\* the run write one output file, and its contents are the bytes of the first
\* entry, in listing order, whose name ends in ".csv".
C9_FirstCsvWritten ==
  (outcome = "success" /\ script = "reports" /\ StartsWithMagic(content.bytes))
  => file = FirstCsvEntry(content.entries).data

\* C10: a body whose first four bytes are not the zip signature (a body
\* shorter than four bytes included) is written verbatim: the run succeeds
\* and the output file equals the downloaded bytes, unless the output file
\* cannot be opened.
C10_VerbatimCopy ==
  (Unpacked /\ ~StartsWithMagic(content.bytes))
  => \/ outcome = "success" /\ exitCode = 0 /\ file = content.bytes
     \/ outcome = "write_error" /\ exitCode = 1 /\ file = NoFile

C10_Witness ==
  /\ outcome = "success"
  /\ content.bytes = <<80, 75, 3>>
  /\ file = <<80, 75, 3>>

\* days from the epoch to the calendar date d = <<year, month, day>>
RECURSIVE DaysBeforeYear(_)
DaysBeforeYear(y) ==
  IF y <= EpochYear THEN 0
  ELSE DaysBeforeYear(y - 1) + (IF IsLeap(y - 1) THEN 366 ELSE 365)

RECURSIVE DaysBeforeMonth(_, _)
DaysBeforeMonth(y, m) ==
  IF m <= 1 THEN 0 ELSE DaysBeforeMonth(y, m - 1) + DaysInMonth(y, m - 1)

DayNumber(d) == DaysBeforeYear(d[1]) + DaysBeforeMonth(d[1], d[2]) + (d[3] - 1)

IsCalendarDate(d) ==
  /\ d[2] \in 1..12
  /\ d[3] \in 1..DaysInMonth(d[1], d[2])

FetchedDetails ==
  /\ pc = "poll"
  /\ calls' = Append(calls, "details")
  /\ outcome' \notin {"details_http", "no_details"}

\* C12: on each poll attempt the status is read without regard to case.
\* "done" ends the loop with the details of that attempt and "failed" ends
\* the process with status 1, in both cases without a sleep and without any
\* later fetch; any other status, a missing one included, leaves the loop
\* pending with the attempt counted once, and the loop then sleeps once
\* before the next loop test.
C12_Classification ==
  /\ [][FetchedDetails =>
          /\ attempt' = attempt + 1
          /\ sleeps' = sleeps
          /\ IF report'.status \in DoneStatuses
               THEN /\ pc' \in {"download", "exit"}
                    /\ pc' = "exit" =>
                         (outcome' = "no_download_url" /\ ~report'.downloadURL)
             ELSE IF report'.status \in TerminalStatuses
               THEN pc' = "exit" /\ exitCode' = 1 /\ outcome' = "report_failed"
             ELSE pc' = "sleep" /\ exitCode' = Running]_vars
  /\ [][pc = "sleep" =>
          \/ /\ pc' = "poll"
             /\ sleeps' = sleeps + 1
             /\ attempt' = attempt
             /\ calls' = calls
             /\ report' = report
          \/ outcome' = "cancelled" /\ calls' = calls]_vars
  /\ [][report.status \in TerminalStatuses =>
          Count("details")' = Count("details") /\ report' = report]_vars
  /\ [](pc \in {"poll", "sleep"} => report.status \notin TerminalStatuses)

\* a second attempt that found the status missing and is about to sleep
C12_Witness ==
  /\ pc = "sleep"
  /\ attempt = 2
  /\ sleeps = 1
  /\ report.status = None
  /\ Count("details") = 2

ReportOrder == <<"token", "templates", "create_report", "details", "download">>

Rank(name) == CHOOSE i \in 1..Len(ReportOrder) : ReportOrder[i] = name

\* C13: in a run of the report script the requests are issued in the order
\* token exchange, template listing, report creation, detail fetches,
\* download, none of them skipped; only the detail fetch is issued more than
\* once, and the download directly follows a detail fetch whose status was
\* "done".
C13_RequestOrder ==
  script = "reports" =>
    /\ \A i \in 1..Len(calls) : calls[i] \in Range(ReportOrder)
    /\ calls # <<>> => calls[1] = "token"
    /\ \A i \in 1..(Len(calls) - 1) :
         \/ Rank(calls[i + 1]) = Rank(calls[i]) + 1
         \/ calls[i] = "details" /\ calls[i + 1] = "details"
    /\ \A name \in Range(ReportOrder) \ {"details"} : Count(name) <= 1
    /\ Count("download") > 0 =>
         /\ report.status \in DoneStatuses
         /\ report.downloadURL

\* a download issued after three detail fetches
C13_Witness ==
  calls = <<"token", "templates", "create_report", "details", "details",
            "details", "download">>

====
